---------------------------- MODULE Spec2Model ----------------------------
(***************************************************************************)
(* Memory-adaptive agent orchestration of excel-pdf-values-validator:      *)
(* MemoryManager (admission ledger under a re-entrant lock), the Celery    *)
(* task hooks of AdaptiveAgentTask, and AdaptiveAgentOrchestrator.         *)
(*                                                                         *)
(* Memory is measured in MB (1 GB = 1024 MB); the GB floats of the source  *)
(* are compared at MB granularity.                                         *)
(***************************************************************************)
EXTENDS Integers, FiniteSets, Sequences, TLC

(***************************************************************************)
(* Bounds of the model                                                     *)
(***************************************************************************)
\* client threads calling one MemoryManager concurrently
NumThreads == 2
\* threads of the contention scenario (one try_spawn_agent call each)
NumContenders == 4
\* cap on the slots put in the ledger by unguarded register_agent calls
MaxRegistered == 3

\* validation requests processed by the orchestrator
NumRequests == 2
\* pool threads of the Celery worker process
NumWorkers == 2

Threads == 1..NumThreads
Requests == 1..NumRequests
Workers == 1..NumWorkers
Contenders == 1..NumContenders
NoThread == 0

(***************************************************************************)
(* Program constants (memory_manager.py)                                   *)
(***************************************************************************)
MbPerGb == 1024
\* MemoryThreshold.HIGH / MEDIUM / LOW breakpoints, in GB
HighGb == 6
MediumGb == 3
LowGb == 1
\* MAX_MEMORY_GB default and MEMORY_SAFETY_MARGIN default (percent)
MaxMemoryGb == 8
SafetyMarginPct == 15
\* "Need at least 30% of usable memory"
UsableSharePct == 30
\* required_mb of an agent type without a profile
DefaultRequiredMb == 256
\* estimated_memory_mb = None; an explicit estimated_memory_mb of 0 is the
\* number 0, and both are falsy in "if estimated_memory_mb:"
NoOverride == -1
\* an estimated_memory_mb that is not a number (required_mb / 1024 raises)
MalformedOverride == -2
\* the safe defaults returned when psutil raises: available_gb = 2.0
FallbackAvailableGb == 2
FallbackAgentCount == 1

\* AGENT_PROFILES: peak_memory_mb and model_memory_mb per agent type
AGENT_PROFILES ==
  [ orchestrator         |-> [peak_memory_mb |-> 256,  model_memory_mb |-> 0],
    pdf_intelligence     |-> [peak_memory_mb |-> 512,  model_memory_mb |-> 1024],
    excel_intelligence   |-> [peak_memory_mb |-> 256,  model_memory_mb |-> 0],
    validation           |-> [peak_memory_mb |-> 512,  model_memory_mb |-> 512],
    evaluation           |-> [peak_memory_mb |-> 128,  model_memory_mb |-> 0],
    ocr_sub_agent        |-> [peak_memory_mb |-> 256,  model_memory_mb |-> 256],
    multimodal_sub_agent |-> [peak_memory_mb |-> 1024, model_memory_mb |-> 1536] ]

(***************************************************************************)
(* Inputs the model draws from                                             *)
(***************************************************************************)
\* available memory reported by psutil to the client threads: 1.5 GB, 3 GB, 4 GB
AvailLevels == {1536, 3072, 4096}
\* agent types requested by client threads (the second one has no profile)
ClientTypes == {"pdf_intelligence", "custom_agent"}
\* available memory reported while requests are processed: one level per tier
\* (0.3 GB CRITICAL, 1.5 GB LOW, 3 GB MEDIUM, 8 GB HIGH)
RequestLevels == {307, 1536, 3072, 8192}
\* estimated_memory_mb arguments
Overrides == {NoOverride, 3584}
\* try_spawn_agent alone: memory levels (1.5 GB, 2.25 GB, 4 GB), a type whose
\* profile needs 2560 MB and one without a profile, and estimated_memory_mb
\* absent, 0, 3584 or not a number
SpawnLevels == {1536, 2304, 4096}
SpawnTypes == {"multimodal_sub_agent", "custom_agent"}
SpawnOverrides == {NoOverride, 0, 3584, MalformedOverride}

(***************************************************************************)
(* MemoryManager: pure parts                                               *)
(***************************************************************************)
\* mutant: exclusive lower bounds
determine_threshold_exclusive(available_mb) ==
  IF available_mb > HighGb * MbPerGb THEN "HIGH"
  ELSE IF available_mb > MediumGb * MbPerGb THEN "MEDIUM"
  ELSE IF available_mb > LowGb * MbPerGb THEN "LOW"
  ELSE "CRITICAL"

determine_threshold(available_mb) ==
  IF available_mb >= HighGb * MbPerGb THEN "HIGH"
  ELSE IF available_mb >= MediumGb * MbPerGb THEN "MEDIUM"
  ELSE IF available_mb >= LowGb * MbPerGb THEN "LOW"
  ELSE "CRITICAL"

\* mutant: the 4 GB step gives 2 instead of 5
calculate_recommended_agent_count_dip(available_mb) ==
  IF available_mb >= 6 * MbPerGb THEN 8
  ELSE IF available_mb >= 4 * MbPerGb THEN 2
  ELSE IF available_mb >= 2 * MbPerGb THEN 3
  ELSE IF available_mb >= 1 * MbPerGb THEN 2
  ELSE 1

calculate_recommended_agent_count(available_mb) ==
  IF available_mb >= 6 * MbPerGb THEN 8
  ELSE IF available_mb >= 4 * MbPerGb THEN 5
  ELSE IF available_mb >= 2 * MbPerGb THEN 3
  ELSE IF available_mb >= 1 * MbPerGb THEN 2
  ELSE 1

\* mutant: the safety margin is not taken off
can_spawn_flag_no_margin(available_mb) ==
  available_mb * 100 > MaxMemoryGb * MbPerGb * UsableSharePct

\* available_gb > max_memory_gb * (1 - safety_margin) * 0.3, scaled to integers
can_spawn_flag(available_mb) ==
  available_mb * 100 * 100 >
      MaxMemoryGb * MbPerGb * (100 - SafetyMarginPct) * UsableSharePct

\* mutant: fallback statistics that still allow spawning
safe_default_stats_permissive ==
  [ available_mb            |-> FallbackAvailableGb * MbPerGb,
    threshold_level         |-> "LOW",
    can_spawn_agents        |-> TRUE,
    recommended_agent_count |-> FallbackAgentCount ]

\* the except branch of get_current_stats
safe_default_stats ==
  [ available_mb            |-> FallbackAvailableGb * MbPerGb,
    threshold_level         |-> "LOW",
    can_spawn_agents        |-> FALSE,
    recommended_agent_count |-> FallbackAgentCount ]

\* get_current_stats for the OS state (available memory, whether psutil raises)
get_current_stats(available_mb, raises) ==
  IF raises THEN safe_default_stats
  ELSE [ available_mb            |-> available_mb,
         threshold_level         |-> determine_threshold(available_mb),
         can_spawn_agents        |-> can_spawn_flag(available_mb),
         recommended_agent_count |-> calculate_recommended_agent_count(available_mb) ]

required_mb(agent_type, estimated_memory_mb) ==
  IF estimated_memory_mb \notin {NoOverride, 0} THEN estimated_memory_mb
  ELSE IF agent_type \in DOMAIN AGENT_PROFILES
       THEN AGENT_PROFILES[agent_type].peak_memory_mb
            + AGENT_PROFILES[agent_type].model_memory_mb
       ELSE DefaultRequiredMb

\* a ledger is the dict active_agents: agent_type -> count
EmptyLedger == [ty \in {} |-> 0]

RECURSIVE SumOver(_, _)
SumOver(ledger, keys) ==
  IF keys = {} THEN 0
  ELSE LET k == CHOOSE x \in keys : TRUE
       IN ledger[k] + SumOver(ledger, keys \ {k})

\* sum(self.active_agents.values())
LedgerTotal(ledger) == SumOver(ledger, DOMAIN ledger)

\* self.active_agents.get(agent_type, 0)
LedgerGet(ledger, agent_type) ==
  IF agent_type \in DOMAIN ledger THEN ledger[agent_type] ELSE 0

\* the reason strings, by their fixed part
ReasonInsufficientAvailable == "Insufficient memory: available"
ReasonInsufficientRequired == "Insufficient memory: need"
ReasonLimitReached == "Agent limit reached"
ReasonOk == "Memory available for agent spawning"
ReasonError == "Error checking memory"

\* mutant: the agent limit is checked before the memory checks
spawn_decision_limit_first(ledger, stats, agent_type, estimated_memory_mb) ==
  IF LedgerTotal(ledger) >= stats.recommended_agent_count
    THEN [can_spawn |-> FALSE, reason |-> ReasonLimitReached]
  ELSE IF ~stats.can_spawn_agents
    THEN [can_spawn |-> FALSE, reason |-> ReasonInsufficientAvailable]
  ELSE IF estimated_memory_mb = MalformedOverride
    THEN [can_spawn |-> FALSE, reason |-> ReasonError]
  ELSE IF stats.available_mb < required_mb(agent_type, estimated_memory_mb)
    THEN [can_spawn |-> FALSE, reason |-> ReasonInsufficientRequired]
  ELSE [can_spawn |-> TRUE, reason |-> ReasonOk]

\* mutant: the limit compared with > instead of >=
spawn_decision_off_by_one(ledger, stats, agent_type, estimated_memory_mb) ==
  IF ~stats.can_spawn_agents
    THEN [can_spawn |-> FALSE, reason |-> ReasonInsufficientAvailable]
  ELSE IF estimated_memory_mb = MalformedOverride
    THEN [can_spawn |-> FALSE, reason |-> ReasonError]
  ELSE IF stats.available_mb < required_mb(agent_type, estimated_memory_mb)
    THEN [can_spawn |-> FALSE, reason |-> ReasonInsufficientRequired]
  ELSE IF LedgerTotal(ledger) > stats.recommended_agent_count
    THEN [can_spawn |-> FALSE, reason |-> ReasonLimitReached]
  ELSE [can_spawn |-> TRUE, reason |-> ReasonOk]

\* the decision of can_spawn_agent for sampled stats and the ledger it reads
spawn_decision(ledger, stats, agent_type, estimated_memory_mb) ==
  IF ~stats.can_spawn_agents
    THEN [can_spawn |-> FALSE, reason |-> ReasonInsufficientAvailable]
  ELSE IF estimated_memory_mb = MalformedOverride
    THEN [can_spawn |-> FALSE, reason |-> ReasonError]
  ELSE IF stats.available_mb < required_mb(agent_type, estimated_memory_mb)
    THEN [can_spawn |-> FALSE, reason |-> ReasonInsufficientRequired]
  ELSE IF LedgerTotal(ledger) >= stats.recommended_agent_count
    THEN [can_spawn |-> FALSE, reason |-> ReasonLimitReached]
  ELSE [can_spawn |-> TRUE, reason |-> ReasonOk]

\* self.active_agents[agent_type] = self.active_agents.get(agent_type, 0) + 1
ledger_registered(ledger, agent_type) ==
  [ty \in DOMAIN ledger \cup {agent_type} |->
      IF ty = agent_type THEN LedgerGet(ledger, agent_type) + 1 ELSE ledger[ty]]

\* mutant: the entry is kept when its count reaches 0
ledger_unregistered_keeps_zero(ledger, agent_type) ==
  IF agent_type \in DOMAIN ledger /\ ledger[agent_type] > 0
    THEN [ledger EXCEPT ![agent_type] = @ - 1]
    ELSE ledger

\* mutant: the entry is deleted whatever its count
ledger_unregistered_drops_entry(ledger, agent_type) ==
  IF agent_type \in DOMAIN ledger /\ ledger[agent_type] > 0
    THEN [ty \in DOMAIN ledger \ {agent_type} |-> ledger[ty]]
    ELSE ledger

\* the body of unregister_agent
ledger_unregistered(ledger, agent_type) ==
  IF agent_type \in DOMAIN ledger /\ ledger[agent_type] > 0
    THEN IF ledger[agent_type] - 1 = 0
           THEN [ty \in DOMAIN ledger \ {agent_type} |-> ledger[ty]]
           ELSE [ledger EXCEPT ![agent_type] = @ - 1]
    ELSE ledger


(***************************************************************************)
(* State                                                                   *)
(***************************************************************************)
\* every MemoryManager instance, named by its owner: the orchestrator's
\* (orchestrator.py:33) and one per agent task class (base_agent.py:74)
AgentClasses == {"pdf_intelligence", "excel_intelligence",
                 "validation_intelligence", "consolidated_processing"}
Managers == {"orchestrator"} \cup AgentClasses
\* the instance the client threads share
ClientManager == "orchestrator"

AllThreads == Threads \cup Contenders

\* a dispatched unit is named by its request and its task class (task.id)
TaskIds == Requests \X AgentClasses
\* the result dict of a unit, named by the unit that produced it
NoPayload == <<>>
NoResult == [status |-> "none"]

NoReturn == [can_spawn |-> FALSE, reason |-> "none"]
NoStats == [available_mb |-> 0, threshold_level |-> "none",
            can_spawn_agents |-> FALSE, recommended_agent_count |-> 0]

VARIABLES
  available_mb,    \* psutil.virtual_memory().available, in MB
  psutil_raises,   \* whether psutil.virtual_memory() raises at present
  os_changed,      \* history: the OS memory state has changed since the start
  active_agents,   \* per manager: the dict agent_type -> count
  lock_owner,      \* per manager: the thread holding agent_lock, or NoThread
  lock_depth,      \* per manager: the RLock's recursion level
  pc,              \* per client thread: where it is in its call
  nested,          \* per client thread: can_spawn_agent was called by try_spawn_agent
  arg_type,        \* per client thread: the agent_type argument
  arg_override,    \* per client thread: the estimated_memory_mb argument
  stats,           \* per client thread: the MemoryStats sampled in this call
  sample_raised,   \* history, per client thread: psutil raised when stats was sampled
  decision,        \* per client thread: (can_spawn, reason) of can_spawn_agent
  ret,             \* per client thread: what its last call returned
  outstanding,     \* history: per type, admissions not yet matched by an unregister call
  req_pc,          \* per request: where process_validation_request is
  req_tier,        \* per request: stats.threshold_level sampled at its start
  req_result,      \* per request: what the call returned or raised
  pdf_result,      \* per request: the local pdf_result
  excel_result,    \* per request: the local excel_result
  active_tasks,    \* orchestrator.active_tasks: the tracked task ids
  consolidation_active, \* orchestrator.consolidation_active
  unit_state,      \* per task id: the state of the dispatched unit (AsyncResult.state)
  unit_args,       \* per task id: the arguments delay() was called with
  worker_pc,       \* per pool thread: where it is in the task it executes
  worker_class,    \* per pool thread: the agent_type of the task it executes
  worker_denied,   \* per pool thread: can_spawn_agent said no in before_start
  worker_outcome   \* per pool thread: the state its last task ended in

mm_vars == <<active_agents, lock_owner, lock_depth>>
os_vars == <<available_mb, psutil_raises, os_changed>>
thread_vars == <<pc, nested, arg_type, arg_override, stats, sample_raised, decision,
                 ret, outstanding>>
orch_vars == <<req_pc, req_tier, req_result, pdf_result, excel_result, active_tasks,
               consolidation_active, unit_state, unit_args>>
worker_vars == <<worker_pc, worker_class, worker_denied, worker_outcome>>
vars == <<os_vars, mm_vars, thread_vars, orch_vars, worker_vars>>

InitManagers ==
  /\ active_agents = [m \in Managers |-> EmptyLedger]
  /\ lock_owner = [m \in Managers |-> NoThread]
  /\ lock_depth = [m \in Managers |-> 0]

InitThreads ==
  /\ pc = [t \in AllThreads |-> "idle"]
  /\ nested = [t \in AllThreads |-> FALSE]
  /\ arg_type = [t \in AllThreads |-> "none"]
  /\ arg_override = [t \in AllThreads |-> NoOverride]
  /\ stats = [t \in AllThreads |-> NoStats]
  /\ sample_raised = [t \in AllThreads |-> FALSE]
  /\ decision = [t \in AllThreads |-> NoReturn]
  /\ ret = [t \in AllThreads |-> NoReturn]
  /\ outstanding = [ty \in ClientTypes \cup SpawnTypes |-> 0]

\* AdaptiveAgentOrchestrator.__init__, and no task submitted yet
InitOrchestrator ==
  /\ req_pc = [r \in Requests |-> "idle"]
  /\ req_tier = [r \in Requests |-> "none"]
  /\ req_result = [r \in Requests |-> NoResult]
  /\ pdf_result = [r \in Requests |-> NoPayload]
  /\ excel_result = [r \in Requests |-> NoPayload]
  /\ active_tasks = {}
  /\ consolidation_active = FALSE
  /\ unit_state = [u \in TaskIds |-> "none"]
  /\ unit_args = [u \in TaskIds |-> <<>>]

\* the pool threads of the worker process, before any task
InitWorkers ==
  /\ worker_pc = [w \in Workers |-> "idle"]
  /\ worker_class = [w \in Workers |-> "none"]
  /\ worker_denied = [w \in Workers |-> FALSE]
  /\ worker_outcome = [w \in Workers |-> "none"]

Init ==
  /\ available_mb \in AvailLevels
  /\ psutil_raises \in BOOLEAN
  /\ os_changed = FALSE
  /\ InitManagers
  /\ InitThreads
  /\ InitOrchestrator
  /\ InitWorkers

(***************************************************************************)
(* The operating system: available memory moves, psutil starts or stops    *)
(* raising                                                                 *)
(***************************************************************************)
\* mutant: a change of the memory state evicts every registered agent
OsChangeEvicts ==
  /\ \E a \in AvailLevels, r \in BOOLEAN :
       /\ <<a, r>> # <<available_mb, psutil_raises>>
       /\ available_mb' = a
       /\ psutil_raises' = r
  /\ os_changed' = TRUE
  /\ active_agents' = [active_agents EXCEPT ![ClientManager] = EmptyLedger]
  /\ UNCHANGED <<lock_owner, lock_depth, thread_vars, orch_vars, worker_vars>>

OsChange ==
  /\ \E a \in AvailLevels, r \in BOOLEAN :
       /\ <<a, r>> # <<available_mb, psutil_raises>>
       /\ available_mb' = a
       /\ psutil_raises' = r
  /\ os_changed' = TRUE
  /\ UNCHANGED <<mm_vars, thread_vars, orch_vars, worker_vars>>


(***************************************************************************)
(* threading.RLock                                                         *)
(***************************************************************************)
\* mutant: a lock that excludes nobody
LockNoExclusion(m, t) == TRUE

\* mutant: a plain Lock, which its own holder cannot take again
LockNotReentrant(m, t) == lock_owner[m] = NoThread

\* an RLock can be taken when it is free or already held by the same thread
LockAvailable(m, t) == lock_owner[m] \in {NoThread, t}

Acquire(m, t) ==
  /\ LockAvailable(m, t)
  /\ lock_owner' = [lock_owner EXCEPT ![m] = t]
  /\ lock_depth' = [lock_depth EXCEPT ![m] = @ + 1]

Release(m, t) ==
  /\ lock_depth' = [lock_depth EXCEPT ![m] = @ - 1]
  /\ lock_owner' = [lock_owner EXCEPT ![m] =
                      IF lock_depth[m] - 1 = 0 THEN NoThread ELSE @]

(***************************************************************************)
(* MemoryManager.try_spawn_agent                                           *)
(***************************************************************************)
\* "with self.agent_lock:" of try_spawn_agent
TrySpawnEnter(t, ty, ov) ==
  /\ pc[t] = "idle"
  /\ Acquire(ClientManager, t)
  /\ pc' = [pc EXCEPT ![t] = "try_spawn_locked"]
  /\ arg_type' = [arg_type EXCEPT ![t] = ty]
  /\ arg_override' = [arg_override EXCEPT ![t] = ov]
  /\ UNCHANGED <<orch_vars, worker_vars, os_vars, active_agents, nested, stats, sample_raised, decision, ret,
                 outstanding>>

\* the nested call self.can_spawn_agent(...): takes the lock again
TrySpawnCallCheck(t) ==
  /\ pc[t] = "try_spawn_locked"
  /\ Acquire(ClientManager, t)
  /\ pc' = [pc EXCEPT ![t] = "can_spawn_locked"]
  /\ nested' = [nested EXCEPT ![t] = TRUE]
  /\ UNCHANGED <<orch_vars, worker_vars, os_vars, active_agents, arg_type, arg_override, stats, sample_raised,
                 decision, ret, outstanding>>

\* mutant: the slot is reserved whatever the check said
TrySpawnReserveAlways(t) ==
  /\ pc[t] = "try_spawn_checked"
  /\ active_agents' =
       [active_agents EXCEPT ![ClientManager] = ledger_registered(@, arg_type[t])]
  /\ outstanding' = [outstanding EXCEPT ![arg_type[t]] = @ + 1]
  /\ Release(ClientManager, t)
  /\ ret' = [ret EXCEPT ![t] = decision[t]]
  /\ pc' = [pc EXCEPT ![t] = "idle"]
  /\ nested' = [nested EXCEPT ![t] = FALSE]
  /\ arg_type' = [arg_type EXCEPT ![t] = "none"]
  /\ arg_override' = [arg_override EXCEPT ![t] = NoOverride]
  /\ decision' = [decision EXCEPT ![t] = NoReturn]
  /\ stats' = [stats EXCEPT ![t] = NoStats]
  /\ sample_raised' = [sample_raised EXCEPT ![t] = FALSE]
  /\ UNCHANGED <<orch_vars, worker_vars, os_vars>>

\* "if can_spawn:" reserve the slot, leave the lock and return
TrySpawnReserve(t) ==
  /\ pc[t] = "try_spawn_checked"
  /\ active_agents' =
       [active_agents EXCEPT ![ClientManager] =
          IF decision[t].can_spawn THEN ledger_registered(@, arg_type[t]) ELSE @]
  /\ outstanding' =
       [outstanding EXCEPT ![arg_type[t]] =
          IF decision[t].can_spawn THEN @ + 1 ELSE @]
  /\ Release(ClientManager, t)
  /\ ret' = [ret EXCEPT ![t] = decision[t]]
  /\ pc' = [pc EXCEPT ![t] = "idle"]
  /\ nested' = [nested EXCEPT ![t] = FALSE]
  /\ arg_type' = [arg_type EXCEPT ![t] = "none"]
  /\ arg_override' = [arg_override EXCEPT ![t] = NoOverride]
  /\ decision' = [decision EXCEPT ![t] = NoReturn]
  /\ stats' = [stats EXCEPT ![t] = NoStats]
  /\ sample_raised' = [sample_raised EXCEPT ![t] = FALSE]
  /\ UNCHANGED <<orch_vars, worker_vars, os_vars>>

(***************************************************************************)
(* MemoryManager.can_spawn_agent                                           *)
(***************************************************************************)
\* a direct call: "with self.agent_lock:"
CanSpawnEnter(t, ty, ov) ==
  /\ pc[t] = "idle"
  /\ Acquire(ClientManager, t)
  /\ pc' = [pc EXCEPT ![t] = "can_spawn_locked"]
  /\ arg_type' = [arg_type EXCEPT ![t] = ty]
  /\ arg_override' = [arg_override EXCEPT ![t] = ov]
  /\ UNCHANGED <<orch_vars, worker_vars, os_vars, active_agents, nested, stats, sample_raised, decision, ret,
                 outstanding>>

\* the body: sample the stats, decide, leave the lock and return
CanSpawnCheck(t) ==
  /\ pc[t] = "can_spawn_locked"
  /\ LET s == get_current_stats(available_mb, psutil_raises)
         d == spawn_decision(active_agents[ClientManager], s,
                             arg_type[t], arg_override[t])
     IN IF nested[t]
          THEN /\ stats' = [stats EXCEPT ![t] = s]
               /\ sample_raised' = [sample_raised EXCEPT ![t] = psutil_raises]
               /\ decision' = [decision EXCEPT ![t] = d]
               /\ pc' = [pc EXCEPT ![t] = "try_spawn_checked"]
               /\ UNCHANGED <<ret, nested, arg_type, arg_override>>
          ELSE /\ ret' = [ret EXCEPT ![t] = d]
               /\ pc' = [pc EXCEPT ![t] = "idle"]
               /\ stats' = [stats EXCEPT ![t] = NoStats]
               /\ sample_raised' = [sample_raised EXCEPT ![t] = FALSE]
               /\ arg_type' = [arg_type EXCEPT ![t] = "none"]
               /\ arg_override' = [arg_override EXCEPT ![t] = NoOverride]
               /\ UNCHANGED <<decision, nested>>
  /\ Release(ClientManager, t)
  /\ UNCHANGED <<orch_vars, worker_vars, os_vars, active_agents, outstanding>>

(***************************************************************************)
(* MemoryManager.register_agent / unregister_agent                         *)
(***************************************************************************)
RegisterEnter(t, ty) ==
  /\ pc[t] = "idle"
  /\ LedgerTotal(active_agents[ClientManager]) < MaxRegistered
  /\ Acquire(ClientManager, t)
  /\ pc' = [pc EXCEPT ![t] = "register_locked"]
  /\ arg_type' = [arg_type EXCEPT ![t] = ty]
  /\ UNCHANGED <<orch_vars, worker_vars, os_vars, active_agents, nested, arg_override, stats, sample_raised,
                 decision, ret, outstanding>>

RegisterBody(t) ==
  /\ pc[t] = "register_locked"
  /\ active_agents' =
       [active_agents EXCEPT ![ClientManager] = ledger_registered(@, arg_type[t])]
  /\ outstanding' = [outstanding EXCEPT ![arg_type[t]] = @ + 1]
  /\ Release(ClientManager, t)
  /\ ret' = [ret EXCEPT ![t] = NoReturn]
  /\ pc' = [pc EXCEPT ![t] = "idle"]
  /\ arg_type' = [arg_type EXCEPT ![t] = "none"]
  /\ UNCHANGED <<orch_vars, worker_vars, os_vars, nested, arg_override, stats, sample_raised, decision>>

\* the caller gives up one of its admissions when it calls unregister_agent
UnregisterEnter(t, ty) ==
  /\ pc[t] = "idle"
  /\ Acquire(ClientManager, t)
  /\ pc' = [pc EXCEPT ![t] = "unregister_locked"]
  /\ arg_type' = [arg_type EXCEPT ![t] = ty]
  /\ outstanding' = [outstanding EXCEPT ![ty] = IF @ > 0 THEN @ - 1 ELSE @]
  /\ UNCHANGED <<orch_vars, worker_vars, os_vars, active_agents, nested, arg_override, stats, sample_raised,
                 decision, ret>>

UnregisterBody(t) ==
  /\ pc[t] = "unregister_locked"
  /\ active_agents' =
       [active_agents EXCEPT ![ClientManager] = ledger_unregistered(@, arg_type[t])]
  /\ Release(ClientManager, t)
  /\ ret' = [ret EXCEPT ![t] = NoReturn]
  /\ pc' = [pc EXCEPT ![t] = "idle"]
  /\ arg_type' = [arg_type EXCEPT ![t] = "none"]
  /\ UNCHANGED <<orch_vars, worker_vars, os_vars, nested, arg_override, stats, sample_raised, decision,
                 outstanding>>

(***************************************************************************)
(* Specifications of the MemoryManager                                     *)
(***************************************************************************)
TrySpawnSteps(t) ==
  \/ \E ty \in ClientTypes, ov \in Overrides : TrySpawnEnter(t, ty, ov)
  \/ TrySpawnCallCheck(t)
  \/ CanSpawnCheck(t)
  \/ TrySpawnReserve(t)

\* every operation of one MemoryManager, from concurrent threads
NextManager ==
  \/ OsChange
  \/ \E t \in Threads :
       \/ TrySpawnSteps(t)
       \/ \E ty \in ClientTypes, ov \in Overrides : CanSpawnEnter(t, ty, ov)
       \/ \E ty \in ClientTypes : RegisterEnter(t, ty)
       \/ RegisterBody(t)
       \/ \E ty \in ClientTypes : UnregisterEnter(t, ty)
       \/ UnregisterBody(t)

Spec == Init /\ [][NextManager]_vars


\* ---- the contention scenario: memory held fixed, admission allowed, enough
\* memory for every requested type, one try_spawn_agent call per thread
EnoughForEveryType(a) ==
  /\ can_spawn_flag(a)
  /\ \A ty \in ClientTypes : a >= required_mb(ty, NoOverride)

InitContention ==
  /\ available_mb \in {a \in AvailLevels : EnoughForEveryType(a)}
  /\ psutil_raises = FALSE
  /\ os_changed = FALSE
  /\ InitManagers
  /\ InitThreads
  /\ InitOrchestrator
  /\ InitWorkers

NextContention ==
  \E t \in Contenders :
    \/ \E ty \in ClientTypes : ret[t] = NoReturn /\ TrySpawnEnter(t, ty, NoOverride)
    \/ TrySpawnCallCheck(t)
    \/ CanSpawnCheck(t)
    \/ TrySpawnReserve(t)

SpecContention == InitContention /\ [][NextContention]_vars

\* ---- the ledger changed only by try_spawn_agent and unregister_agent
NextAdmit ==
  \/ OsChange
  \/ \E t \in Threads :
       \/ TrySpawnSteps(t)
       \/ \E ty \in ClientTypes : UnregisterEnter(t, ty)
       \/ UnregisterBody(t)

SpecAdmit == Init /\ [][NextAdmit]_vars

\* ---- admissions (try_spawn_agent or register_agent), each later followed by
\* one unregister_agent of the same type
NextPairs ==
  \/ OsChange
  \/ \E t \in Threads :
       \/ TrySpawnSteps(t)
       \/ \E ty \in ClientTypes : RegisterEnter(t, ty)
       \/ RegisterBody(t)
       \/ \E ty \in ClientTypes : outstanding[ty] > 0 /\ UnregisterEnter(t, ty)
       \/ UnregisterBody(t)

SpecPairs == Init /\ [][NextPairs]_vars

(***************************************************************************)
(* Claims about the admission ledger                                       *)
(***************************************************************************)
ClientLedger == active_agents[ClientManager]
CurrentCeiling == get_current_stats(available_mb, psutil_raises).recommended_agent_count
AllIdle == \A t \in AllThreads : pc[t] = "idle"

ContentionDone == \A t \in Contenders : pc[t] = "idle" /\ ret[t] # NoReturn
Admitted == {t \in Contenders : ret[t].can_spawn}
LimitRejected ==
  {t \in Contenders : ~ret[t].can_spawn /\ ret[t].reason = ReasonLimitReached}

\* C1: with the memory statistics fixed (ceiling C, admission allowed, enough
\* memory for every type) and an empty ledger at the start, N >= C concurrent
\* try_spawn_agent calls end with exactly C admissions and N - C rejections,
\* each rejection with the "limit reached" reason.
C1_AdmissionAtomicity ==
  (ContentionDone /\ NumContenders >= CurrentCeiling) =>
      /\ Cardinality(Admitted) = CurrentCeiling
      /\ Cardinality(LimitRejected) = NumContenders - CurrentCeiling
      /\ LedgerTotal(ClientLedger) = CurrentCeiling

C1_Witness ==
  /\ ContentionDone
  /\ CurrentCeiling = 3
  /\ Cardinality(Admitted) = 3
  /\ Cardinality(LimitRejected) = NumContenders - 3
  /\ NumContenders > 3

\* C2: with the ledger changed only by try_spawn_agent and unregister_agent,
\* the total right after a successful admission is at most the
\* recommended_agent_count sampled in that call; and while the OS memory state
\* (hence the ceiling) has not changed, the total never exceeds the ceiling.
C2_AdmissionStep(t) ==
  (pc[t] = "try_spawn_checked" /\ pc'[t] = "idle" /\ decision[t].can_spawn) =>
      LedgerTotal(ClientLedger') <= stats[t].recommended_agent_count

C2_CeilingBound ==
  /\ [][\A t \in Threads : C2_AdmissionStep(t)]_vars
  /\ [](~os_changed => LedgerTotal(ClientLedger) <= CurrentCeiling)

C2_Witness ==
  /\ ~os_changed
  /\ LedgerTotal(ClientLedger) = CurrentCeiling
  /\ CurrentCeiling = 3
  /\ \E t \in Threads : pc[t] = "idle" /\ ret[t].can_spawn

\* C5: for any interleaving of admissions each later followed by one
\* unregister_agent of the same type, every per-type count and the total are
\* >= 0 in every state, and once all pairs have completed the ledger is the
\* empty mapping.
C5_LedgerBalance ==
  /\ \A ty \in DOMAIN ClientLedger : ClientLedger[ty] >= 0
  /\ LedgerTotal(ClientLedger) >= 0
  /\ (AllIdle /\ \A ty \in ClientTypes : outstanding[ty] = 0) =>
        ClientLedger = EmptyLedger

\* an admitted slot (thread 1's last call was an admission) has been given back
C5_Witness ==
  /\ AllIdle
  /\ \A ty \in ClientTypes : outstanding[ty] = 0
  /\ ClientLedger = EmptyLedger
  /\ ret[1].can_spawn

\* C10: while psutil raises, the sampled statistics are the safe defaults
\* (tier LOW or worse, can_spawn_agents false, recommended_agent_count 1), so
\* every can_spawn_agent / try_spawn_agent that samples then is rejected and
\* leaves the ledger unchanged.
C10_CheckStep(t) ==
  (pc[t] = "can_spawn_locked" /\ pc'[t] # "can_spawn_locked" /\ psutil_raises) =>
      /\ active_agents' = active_agents
      /\ IF nested[t]
           THEN /\ stats'[t].threshold_level \in {"LOW", "CRITICAL"}
                /\ stats'[t].can_spawn_agents = FALSE
                /\ stats'[t].recommended_agent_count = 1
                /\ decision'[t].can_spawn = FALSE
           ELSE /\ ret'[t].can_spawn = FALSE
                /\ ret'[t].reason = ReasonInsufficientAvailable

C10_ReserveStep(t) ==
  (pc[t] = "try_spawn_checked" /\ pc'[t] = "idle" /\ sample_raised[t]) =>
      /\ active_agents' = active_agents
      /\ ret'[t].can_spawn = FALSE
      /\ ret'[t].reason = ReasonInsufficientAvailable

C10_FailSafeSampling ==
  [][\A t \in Threads : C10_CheckStep(t) /\ C10_ReserveStep(t)]_vars

\* a try_spawn_agent that sampled while psutil raised is about to return
C10_Witness ==
  \E t \in Threads :
    /\ pc[t] = "try_spawn_checked"
    /\ sample_raised[t]
    /\ ~decision[t].can_spawn


(***************************************************************************)
(* Celery: the worker side.  A pool thread of the worker process executes  *)
(* one task at a time: before_start, run, then on_failure (when run        *)
(* raised) and after_return.  The hooks of a task class use the            *)
(* MemoryManager of that class; every MemoryManager method a hook calls    *)
(* runs under that manager's lock, so each call is one step.  The memory   *)
(* statistics a hook samples are an input of its step.                     *)
(***************************************************************************)
\* what get_current_stats can return while tasks and requests are processed
RequestStats == {get_current_stats(a, x) : a \in RequestLevels, x \in BOOLEAN}

\* a pool thread between registering its slot and the first hook that releases it
HoldingStates == {"running", "success_after_return", "failure_on_failure"}

\* the ledger a hook of class c works on is free for the calling thread
HookLockFree(c) == lock_owner[c] = NoThread

\* mutant: before_start that raises MemoryConstraintError on a denied check
BeforeStartRegisterFailFast(w) ==
  /\ worker_pc[w] = "before_start_checked"
  /\ HookLockFree(worker_class[w])
  /\ IF worker_denied[w]
       THEN /\ worker_pc' = [worker_pc EXCEPT ![w] = "idle"]
            /\ worker_outcome' = [worker_outcome EXCEPT ![w] = "FAILURE"]
            /\ UNCHANGED active_agents
       ELSE /\ worker_pc' = [worker_pc EXCEPT ![w] = "running"]
            /\ active_agents' = [active_agents EXCEPT ![worker_class[w]] =
                                   ledger_registered(@, worker_class[w])]
            /\ UNCHANGED worker_outcome
  /\ UNCHANGED <<os_vars, lock_owner, lock_depth, thread_vars, orch_vars,
                 worker_class, worker_denied>>

\* before_start, first call: can_spawn_agent(self.agent_type) of a task of
\* class c picked up by the idle pool thread w; a denial is only logged
BeforeStartCheck(w, c) ==
  /\ worker_pc[w] = "idle"
  /\ HookLockFree(c)
  /\ \E s \in RequestStats :
       worker_denied' = [worker_denied EXCEPT ![w] =
                           ~spawn_decision(active_agents[c], s, c, NoOverride).can_spawn]
  /\ worker_class' = [worker_class EXCEPT ![w] = c]
  /\ worker_outcome' = [worker_outcome EXCEPT ![w] = "none"]
  /\ worker_pc' = [worker_pc EXCEPT ![w] = "before_start_checked"]
  /\ UNCHANGED <<os_vars, mm_vars, thread_vars, orch_vars>>

\* before_start, second call: register_agent(self.agent_type), whatever the
\* check said; then the task body starts
BeforeStartRegister(w) ==
  /\ worker_pc[w] = "before_start_checked"
  /\ HookLockFree(worker_class[w])
  /\ active_agents' = [active_agents EXCEPT ![worker_class[w]] =
                         ledger_registered(@, worker_class[w])]
  /\ worker_pc' = [worker_pc EXCEPT ![w] = "running"]
  /\ UNCHANGED <<os_vars, lock_owner, lock_depth, thread_vars, orch_vars,
                 worker_class, worker_denied, worker_outcome>>

\* run: execute_main_logic returns a result
RunSucceeds(w) ==
  /\ worker_pc[w] = "running"
  /\ worker_pc' = [worker_pc EXCEPT ![w] = "success_after_return"]
  /\ UNCHANGED <<os_vars, mm_vars, thread_vars, orch_vars,
                 worker_class, worker_denied, worker_outcome>>

\* run: execute_main_logic raises (for the consolidated task: any of its
\* three stages), the exception is logged and raised again
RunFails(w) ==
  /\ worker_pc[w] = "running"
  /\ worker_pc' = [worker_pc EXCEPT ![w] = "failure_on_failure"]
  /\ UNCHANGED <<os_vars, mm_vars, thread_vars, orch_vars,
                 worker_class, worker_denied, worker_outcome>>

\* on_failure: unregister_agent(self.agent_type)
OnFailure(w) ==
  /\ worker_pc[w] = "failure_on_failure"
  /\ HookLockFree(worker_class[w])
  /\ active_agents' = [active_agents EXCEPT ![worker_class[w]] =
                         ledger_unregistered(@, worker_class[w])]
  /\ worker_pc' = [worker_pc EXCEPT ![w] = "failure_after_return"]
  /\ UNCHANGED <<os_vars, lock_owner, lock_depth, thread_vars, orch_vars,
                 worker_class, worker_denied, worker_outcome>>

\* after_return: unregister_agent(self.agent_type), after a success and after
\* a failure alike; the pool thread is free again
AfterReturn(w) ==
  /\ worker_pc[w] \in {"success_after_return", "failure_after_return"}
  /\ HookLockFree(worker_class[w])
  /\ active_agents' = [active_agents EXCEPT ![worker_class[w]] =
                         ledger_unregistered(@, worker_class[w])]
  /\ worker_outcome' = [worker_outcome EXCEPT ![w] =
                          IF worker_pc[w] = "success_after_return"
                            THEN "SUCCESS" ELSE "FAILURE"]
  /\ worker_pc' = [worker_pc EXCEPT ![w] = "idle"]
  /\ UNCHANGED <<os_vars, lock_owner, lock_depth, thread_vars, orch_vars,
                 worker_class, worker_denied>>

\* the service at rest: no client thread, no request, no task
InitService ==
  /\ available_mb = 8192
  /\ psutil_raises = FALSE
  /\ os_changed = FALSE
  /\ InitManagers
  /\ InitThreads
  /\ InitOrchestrator
  /\ InitWorkers

NextWorker ==
  \E w \in Workers :
    \/ \E c \in AgentClasses : BeforeStartCheck(w, c)
    \/ BeforeStartRegister(w)
    \/ RunSucceeds(w)
    \/ RunFails(w)
    \/ OnFailure(w)
    \/ AfterReturn(w)

SpecWorker == InitService /\ [][NextWorker]_vars

(***************************************************************************)
(* Claims about the task hooks                                             *)
(***************************************************************************)
\* the pool threads that hold a registered slot of class c
Holders(c) == {w \in Workers : worker_class[w] = c /\ worker_pc[w] \in HoldingStates}

\* C3 (as stated): every registered slot is released exactly once, so the
\* ledger of a task class always counts exactly the workers of that class that
\* registered and have not yet released; a failing worker never takes the slot
\* of another running worker with it.
C3_ExactlyOnceRelease ==
  \A c \in AgentClasses : LedgerGet(active_agents[c], c) = Cardinality(Holders(c))

ClassOf(u) == u[2]

\* the result dict a unit returns, named by the unit that produced it
result_of(u) == [status |-> "success", producer |-> u]
\* the exception a failing unit raises
error_of(u) == [status |-> "error", stage |-> ClassOf(u), kind |-> "task_error"]
\* the exception get(timeout=...) raises for a unit that has not finished
timeout_of(u) == [status |-> "error", stage |-> ClassOf(u), kind |-> "timeout"]

\* mutant: only the HIGH tier is processed by separate agents
chooses_distributed_high_only(tier) == tier = "HIGH"

\* stats.threshold_level in [MemoryThreshold.HIGH, MemoryThreshold.MEDIUM]
chooses_distributed(tier) == tier \in {"HIGH", "MEDIUM"}

\* mutant: the except branch leaves the tracking dict alone
tasks_left_alone(tasks) == tasks

\* the except branches: every key of self.active_tasks is popped
tasks_after_cleanup(tasks) == {}

\* task.delay(...) followed by self.active_tasks[task.id] = <type>
Submit(u, args) ==
  /\ unit_state' = [unit_state EXCEPT ![u] = "PENDING"]
  /\ unit_args' = [unit_args EXCEPT ![u] = args]
  /\ active_tasks' = active_tasks \cup {u}

\* the worker finishes a dispatched unit
UnitSucceeds(u) ==
  /\ unit_state[u] = "PENDING"
  /\ unit_state' = [unit_state EXCEPT ![u] = "SUCCESS"]
  /\ UNCHANGED <<os_vars, mm_vars, thread_vars, worker_vars, req_pc, req_tier,
                 req_result, pdf_result, excel_result, active_tasks,
                 consolidation_active, unit_args>>

UnitFails(u) ==
  /\ unit_state[u] = "PENDING"
  /\ unit_state' = [unit_state EXCEPT ![u] = "FAILURE"]
  /\ UNCHANGED <<os_vars, mm_vars, thread_vars, worker_vars, req_pc, req_tier,
                 req_result, pdf_result, excel_result, active_tasks,
                 consolidation_active, unit_args>>

\* mutant: get() without a timeout waits for as long as the unit is pending
GetRaisesNoTimeout(u, err) == unit_state[u] = "FAILURE" /\ err = error_of(u)

\* what task.get(timeout=...) raises for unit u, if it raises
GetRaises(u, err) ==
  \/ unit_state[u] = "FAILURE" /\ err = error_of(u)
  \/ unit_state[u] = "PENDING" /\ err = timeout_of(u)

\* the call of request r is over: its locals (stats, pdf_result, excel_result)
\* are gone
LocalsDropped(r) ==
  /\ req_tier' = [req_tier EXCEPT ![r] = "none"]
  /\ pdf_result' = [pdf_result EXCEPT ![r] = NoPayload]
  /\ excel_result' = [excel_result EXCEPT ![r] = NoPayload]

\* mutant: a failed distributed request falls back to the consolidated unit
DistRaiseFallsBack(r, err) ==
  /\ active_tasks' = tasks_after_cleanup(active_tasks)
  /\ req_pc' = [req_pc EXCEPT ![r] = "cons_submit"]
  /\ LocalsDropped(r)
  /\ UNCHANGED <<req_result, consolidation_active, unit_state, unit_args>>

\* the except branch of _execute_distributed_processing, and the re-raise of
\* process_validation_request
DistRaise(r, err) ==
  /\ active_tasks' = tasks_after_cleanup(active_tasks)
  /\ req_result' = [req_result EXCEPT ![r] = err]
  /\ req_pc' = [req_pc EXCEPT ![r] = "raised"]
  /\ LocalsDropped(r)
  /\ UNCHANGED <<consolidation_active, unit_state, unit_args>>

\* process_validation_request: sample the statistics, choose the strategy
Receive(r) ==
  /\ req_pc[r] = "idle"
  /\ \E s \in RequestStats :
       /\ req_tier' = [req_tier EXCEPT ![r] = s.threshold_level]
       /\ req_pc' = [req_pc EXCEPT ![r] =
                       IF chooses_distributed(s.threshold_level)
                         THEN "dist_submit_pdf" ELSE "cons_submit"]
  /\ UNCHANGED <<os_vars, mm_vars, thread_vars, worker_vars, req_result, pdf_result,
                 excel_result, active_tasks, consolidation_active, unit_state,
                 unit_args>>

DistSubmitPdf(r) ==
  /\ req_pc[r] = "dist_submit_pdf"
  /\ Submit(<<r, "pdf_intelligence">>, <<"pdf_path">>)
  /\ req_pc' = [req_pc EXCEPT ![r] = "dist_submit_excel"]
  /\ UNCHANGED <<os_vars, mm_vars, thread_vars, worker_vars, req_tier, req_result,
                 pdf_result, excel_result, consolidation_active>>

DistSubmitExcel(r) ==
  /\ req_pc[r] = "dist_submit_excel"
  /\ Submit(<<r, "excel_intelligence">>, <<"excel_path">>)
  /\ req_pc' = [req_pc EXCEPT ![r] = "dist_wait_pdf"]
  /\ UNCHANGED <<os_vars, mm_vars, thread_vars, worker_vars, req_tier, req_result,
                 pdf_result, excel_result, consolidation_active>>

\* pdf_result = pdf_task.get(timeout=300)
DistWaitPdf(r) ==
  /\ req_pc[r] = "dist_wait_pdf"
  /\ LET u == <<r, "pdf_intelligence">> IN
       \/ /\ unit_state[u] = "SUCCESS"
          /\ pdf_result' = [pdf_result EXCEPT ![r] = result_of(u)]
          /\ req_pc' = [req_pc EXCEPT ![r] = "dist_wait_excel"]
          /\ UNCHANGED <<req_tier, req_result, excel_result, active_tasks,
                         consolidation_active, unit_state, unit_args>>
       \/ \E err \in {error_of(u), timeout_of(u)} :
            GetRaises(u, err) /\ DistRaise(r, err)
  /\ UNCHANGED <<os_vars, mm_vars, thread_vars, worker_vars>>

\* mutant: the spreadsheet result is taken without waiting for the unit
DistWaitExcelNoWait(r) ==
  /\ req_pc[r] = "dist_wait_excel"
  /\ excel_result' = [excel_result EXCEPT ![r] = result_of(<<r, "excel_intelligence">>)]
  /\ req_pc' = [req_pc EXCEPT ![r] = "dist_submit_validation"]
  /\ UNCHANGED <<os_vars, mm_vars, thread_vars, worker_vars, req_tier, req_result,
                 pdf_result, active_tasks, consolidation_active, unit_state, unit_args>>

\* excel_result = excel_task.get(timeout=300)
DistWaitExcel(r) ==
  /\ req_pc[r] = "dist_wait_excel"
  /\ LET u == <<r, "excel_intelligence">> IN
       \/ /\ unit_state[u] = "SUCCESS"
          /\ excel_result' = [excel_result EXCEPT ![r] = result_of(u)]
          /\ req_pc' = [req_pc EXCEPT ![r] = "dist_submit_validation"]
          /\ UNCHANGED <<req_tier, req_result, pdf_result, active_tasks,
                         consolidation_active, unit_state, unit_args>>
       \/ \E err \in {error_of(u), timeout_of(u)} :
            GetRaises(u, err) /\ DistRaise(r, err)
  /\ UNCHANGED <<os_vars, mm_vars, thread_vars, worker_vars>>

\* the two extraction ids are popped, the validation unit is submitted with
\* pdf_result['chunks'] and excel_result['data'] and tracked
DistSubmitValidation(r) ==
  /\ req_pc[r] = "dist_submit_validation"
  /\ LET u == <<r, "validation_intelligence">> IN
       /\ unit_state' = [unit_state EXCEPT ![u] = "PENDING"]
       /\ unit_args' = [unit_args EXCEPT ![u] = <<pdf_result[r], excel_result[r]>>]
       /\ active_tasks' = (active_tasks \ {<<r, "pdf_intelligence">>,
                                           <<r, "excel_intelligence">>}) \cup {u}
  /\ req_pc' = [req_pc EXCEPT ![r] = "dist_wait_validation"]
  /\ UNCHANGED <<os_vars, mm_vars, thread_vars, worker_vars, req_tier, req_result,
                 pdf_result, excel_result, consolidation_active>>

\* mutant: a failed validation unit is reported inside a success result
DistWaitValidationSwallow(r) ==
  /\ req_pc[r] = "dist_wait_validation"
  /\ LET u == <<r, "validation_intelligence">> IN
       /\ unit_state[u] \in {"SUCCESS", "FAILURE"}
       /\ active_tasks' = active_tasks \ {u}
       /\ req_result' = [req_result EXCEPT ![r] =
                           [status |-> "success", execution_mode |-> "distributed",
                            pdf_result |-> pdf_result[r],
                            excel_result |-> excel_result[r],
                            validation_result |-> result_of(u)]]
       /\ req_pc' = [req_pc EXCEPT ![r] = "returned"]
  /\ LocalsDropped(r)
  /\ UNCHANGED <<os_vars, mm_vars, thread_vars, worker_vars, consolidation_active,
                 unit_state, unit_args>>

\* validation_result = validation_task.get(timeout=300), pop, return
DistWaitValidation(r) ==
  /\ req_pc[r] = "dist_wait_validation"
  /\ LET u == <<r, "validation_intelligence">> IN
       \/ /\ unit_state[u] = "SUCCESS"
          /\ active_tasks' = active_tasks \ {u}
          /\ req_result' = [req_result EXCEPT ![r] =
                              [status |-> "success", execution_mode |-> "distributed",
                               pdf_result |-> pdf_result[r],
                               excel_result |-> excel_result[r],
                               validation_result |-> result_of(u)]]
          /\ req_pc' = [req_pc EXCEPT ![r] = "returned"]
          /\ LocalsDropped(r)
          /\ UNCHANGED <<consolidation_active, unit_state, unit_args>>
       \/ \E err \in {error_of(u), timeout_of(u)} :
            GetRaises(u, err) /\ DistRaise(r, err)
  /\ UNCHANGED <<os_vars, mm_vars, thread_vars, worker_vars>>

\* self.consolidation_active = True, delay(...), track the id
ConsSubmit(r) ==
  /\ req_pc[r] = "cons_submit"
  /\ consolidation_active' = TRUE
  /\ Submit(<<r, "consolidated_processing">>, <<"pdf_path", "excel_path">>)
  /\ req_pc' = [req_pc EXCEPT ![r] = "cons_wait"]
  /\ UNCHANGED <<os_vars, mm_vars, thread_vars, worker_vars, req_tier, req_result,
                 pdf_result, excel_result>>

\* result = consolidated_task.get(timeout=600), then pop and return, or the
\* except branch of _execute_consolidated_processing
ConsWait(r) ==
  /\ req_pc[r] = "cons_wait"
  /\ consolidation_active' = FALSE
  /\ LET u == <<r, "consolidated_processing">> IN
       \/ /\ unit_state[u] = "SUCCESS"
          /\ active_tasks' = active_tasks \ {u}
          /\ req_result' = [req_result EXCEPT ![r] =
                              [status |-> "success", execution_mode |-> "consolidated",
                               result |-> result_of(u)]]
          /\ req_pc' = [req_pc EXCEPT ![r] = "returned"]
       \/ \E err \in {error_of(u), timeout_of(u)} :
            /\ GetRaises(u, err)
            /\ active_tasks' = tasks_after_cleanup(active_tasks)
            /\ req_result' = [req_result EXCEPT ![r] = err]
            /\ req_pc' = [req_pc EXCEPT ![r] = "raised"]
  /\ LocalsDropped(r)
  /\ UNCHANGED <<os_vars, mm_vars, thread_vars, worker_vars, unit_state, unit_args>>

\* get_system_status()["active_tasks"]: len(self.active_tasks)
active_task_count == Cardinality(active_tasks)

NextOrchestrator ==
  \/ \E r \in Requests :
       \/ Receive(r)
       \/ DistSubmitPdf(r)
       \/ DistSubmitExcel(r)
       \/ DistWaitPdf(r)
       \/ DistWaitExcel(r)
       \/ DistSubmitValidation(r)
       \/ DistWaitValidation(r)
       \/ ConsSubmit(r)
       \/ ConsWait(r)
  \/ \E u \in TaskIds : UnitSucceeds(u) \/ UnitFails(u)

SpecOrch == InitService /\ [][NextOrchestrator]_vars

(***************************************************************************)
(* Claims about the orchestrator                                           *)
(***************************************************************************)
DistributedClasses == {"pdf_intelligence", "excel_intelligence", "validation_intelligence"}
ConsolidatedClasses == {"consolidated_processing"}
DistributedPcs == {"dist_submit_pdf", "dist_submit_excel", "dist_wait_pdf",
                   "dist_wait_excel", "dist_submit_validation", "dist_wait_validation"}
ConsolidatedPcs == {"cons_submit", "cons_wait"}
FinishedPcs == {"returned", "raised"}

\* the task classes of the units request r has dispatched so far
Dispatched(r) == {c \in AgentClasses : unit_state[<<r, c>>] # "none"}

\* C6: in the distributed path the validation unit is dispatched only after
\* both extraction units completed successfully, with their two results as its
\* arguments; a request that raised because an extraction failed or timed out
\* never has a validation unit.
C6_ValidationOrdering ==
  \A r \in Requests :
    LET p == <<r, "pdf_intelligence">>
        e == <<r, "excel_intelligence">>
        v == <<r, "validation_intelligence">>
    IN /\ unit_state[v] # "none" =>
            /\ unit_state[p] = "SUCCESS"
            /\ unit_state[e] = "SUCCESS"
            /\ unit_args[v] = <<result_of(p), result_of(e)>>
       /\ (req_pc[r] = "raised"
             /\ req_result[r].stage \in {"pdf_intelligence", "excel_intelligence"})
            => unit_state[v] = "none"

\* one request has its validation unit dispatched; another one timed out on
\* an extraction that succeeded afterwards, and has none
C6_Witness ==
  \E r, q \in Requests :
    /\ unit_state[<<r, "validation_intelligence">>] = "PENDING"
    /\ req_pc[q] = "raised"
    /\ req_result[q] = timeout_of(<<q, "pdf_intelligence">>)
    /\ unit_state[<<q, "pdf_intelligence">>] = "SUCCESS"
    /\ unit_state[<<q, "excel_intelligence">>] = "SUCCESS"
    /\ unit_state[<<q, "validation_intelligence">>] = "none"

\* C7: once process_validation_request has raised, no tracking entry of that
\* request is left; when no other request is in flight the active count is 0;
\* the error raised is the error of the stage whose get() raised.
C7_CleanupOnFailure ==
  \A r \in Requests :
    req_pc[r] = "raised" =>
      /\ \A c \in AgentClasses : <<r, c>> \notin active_tasks
      /\ (\A q \in Requests \ {r} : req_pc[q] \in FinishedPcs \cup {"idle"})
           => active_task_count = 0
      /\ \E c \in Dispatched(r) :
           \/ req_result[r] = error_of(<<r, c>>) /\ unit_state[<<r, c>>] = "FAILURE"
           \/ req_result[r] = timeout_of(<<r, c>>)

\* a request raised the error of its failed validation unit, the other
\* request has finished, nothing is tracked
C7_Witness ==
  \E r, q \in Requests :
    /\ r # q
    /\ req_pc[r] = "raised"
    /\ req_result[r] = error_of(<<r, "validation_intelligence">>)
    /\ req_pc[q] = "returned"
    /\ active_task_count = 0

\* C8: a request whose sampled tier is HIGH or MEDIUM is in the distributed
\* path and dispatches only the PDF, spreadsheet and validation units; one
\* whose tier is LOW or CRITICAL is in the consolidated path and dispatches
\* only the consolidated unit; a returned result is tagged with the mode of
\* the path, with exactly the units of that path dispatched.
C8_PathOfTier(r) ==
  /\ req_tier[r] \in {"HIGH", "MEDIUM"} =>
       req_pc[r] \in DistributedPcs /\ Dispatched(r) \subseteq DistributedClasses
  /\ req_tier[r] \in {"LOW", "CRITICAL"} =>
       req_pc[r] \in ConsolidatedPcs /\ Dispatched(r) \subseteq ConsolidatedClasses
  /\ req_pc[r] \in DistributedPcs \cup ConsolidatedPcs => req_tier[r] # "none"

C8_ReturnStep(r) ==
  (req_pc[r] # "returned" /\ req_pc'[r] = "returned") =>
    IF req_tier[r] \in {"HIGH", "MEDIUM"}
      THEN /\ req_result'[r].execution_mode = "distributed"
           /\ Dispatched(r) = DistributedClasses
      ELSE /\ req_tier[r] \in {"LOW", "CRITICAL"}
           /\ req_result'[r].execution_mode = "consolidated"
           /\ Dispatched(r) = ConsolidatedClasses

C8_DispatchByTier ==
  /\ [](\A r \in Requests : C8_PathOfTier(r))
  /\ [][\A r \in Requests : C8_ReturnStep(r)]_vars

\* a MEDIUM request waits for its validation unit while a CRITICAL request
\* waits for its consolidated unit
C8_Witness ==
  \E r, q \in Requests :
    /\ req_tier[r] = "MEDIUM" /\ req_pc[r] = "dist_wait_validation"
    /\ req_tier[q] = "CRITICAL" /\ req_pc[q] = "cons_wait"

\* C9: a returned request has status 'success' and every unit of its path
\* completed successfully; a request one of whose units failed or timed out
\* has raised, and what it raised is an error without any sub-result.
C9_NoPartialSuccess ==
  \A r \in Requests :
    /\ req_result[r].status = "success" =>
         /\ req_pc[r] = "returned"
         /\ Dispatched(r) = (IF req_result[r].execution_mode = "distributed"
                               THEN DistributedClasses ELSE ConsolidatedClasses)
         /\ \A c \in Dispatched(r) : unit_state[<<r, c>>] = "SUCCESS"
    /\ req_pc[r] = "returned" => req_result[r].status = "success"
    /\ req_pc[r] = "raised" =>
         /\ req_result[r].status = "error"
         /\ DOMAIN req_result[r] = {"status", "stage", "kind"}

\* both extractions of a request succeeded, its validation unit failed, and
\* the caller got the error
C9_Witness ==
  \E r \in Requests :
    /\ unit_state[<<r, "pdf_intelligence">>] = "SUCCESS"
    /\ unit_state[<<r, "excel_intelligence">>] = "SUCCESS"
    /\ unit_state[<<r, "validation_intelligence">>] = "FAILURE"
    /\ req_pc[r] = "raised"
    /\ req_result[r].status = "error"

(***************************************************************************)
(* Claims about the operations of one MemoryManager                        *)
(***************************************************************************)
\* C11: unregister_agent(t) on a type with count n >= 1 leaves n - 1, deletes
\* the entry when that is 0, and leaves every other type as it was; on a type
\* that is absent it leaves the ledger unchanged; it returns None in both
\* cases.  Registering a type and then unregistering it gives the ledger back.
C11_UnregisterStep(t) ==
  (pc[t] = "unregister_locked" /\ pc'[t] = "idle") =>
    LET before == active_agents[ClientManager]
        after == active_agents'[ClientManager]
        ty == arg_type[t]
        n == LedgerGet(before, ty)
    IN /\ n >= 1 =>
            /\ LedgerGet(after, ty) = n - 1
            /\ (ty \in DOMAIN after) = (n - 1 > 0)
            /\ DOMAIN after \ {ty} = DOMAIN before \ {ty}
            /\ \A other \in DOMAIN before \ {ty} : after[other] = before[other]
       /\ ty \notin DOMAIN before => after = before
       /\ ret'[t] = NoReturn

C11_UnregisterSemantics ==
  /\ [](\A ty \in ClientTypes :
          ledger_unregistered(ledger_registered(ClientLedger, ty), ty) = ClientLedger)
  /\ [][\A t \in Threads : C11_UnregisterStep(t)]_vars

\* unregister_agent is about to lower a count of 2 or more while another type
\* is in the ledger too
C11_Witness ==
  \E t \in Threads :
    /\ pc[t] = "unregister_locked"
    /\ LedgerGet(ClientLedger, arg_type[t]) >= 2
    /\ DOMAIN ClientLedger \ {arg_type[t]} # {}

\* C12 (as stated): one ledger is shared by all task classes of the worker
\* process, so the slot of every worker that has registered is counted in the
\* ledger that the admission check of every task class sums up.
C12_SingleLedger ==
  \A w \in Workers :
    worker_pc[w] \in HoldingStates =>
      \A c \in AgentClasses : LedgerGet(active_agents[c], worker_class[w]) >= 1

(***************************************************************************)
(* Read operations: get_current_stats and suggest_consolidation_strategy   *)
(* of the MemoryManager, get_system_status of the orchestrator.  None of   *)
(* them takes the lock.                                                    *)
(***************************************************************************)
\* MemoryThreshold.CRITICAL.value (0.5 GB) in MB
CriticalValueMb == 512

\* MemoryThreshold.<tier>.value, in MB
threshold_value_mb(tier) ==
  IF tier = "HIGH" THEN HighGb * MbPerGb
  ELSE IF tier = "MEDIUM" THEN MediumGb * MbPerGb
  ELSE IF tier = "LOW" THEN LowGb * MbPerGb
  ELSE CriticalValueMb

\* mutant: the MEDIUM tier answered like the LOW tier
suggest_consolidation_strategy_medium_as_low(s) ==
  [ threshold_level      |-> threshold_value_mb(s.threshold_level),
    recommended_action   |->
      IF s.threshold_level = "HIGH" THEN "spawn_specialized_agents"
      ELSE IF s.threshold_level \in {"MEDIUM", "LOW"} THEN "aggressive_consolidation"
      ELSE "minimal_mode",
    agent_consolidation  |->
      IF s.threshold_level = "HIGH"
        THEN [orchestrator |-> 1, pdf_intelligence |-> 1, excel_intelligence |-> 1,
              validation |-> 1, sub_agents |-> <<"ocr", "multimodal", "evaluation">>]
      ELSE IF s.threshold_level \in {"MEDIUM", "LOW"}
        THEN [orchestrator |-> 1, combined_processor |-> 1]
      ELSE [orchestrator_only |-> 1],
    memory_optimizations |->
      IF s.threshold_level = "HIGH" THEN <<>>
      ELSE IF s.threshold_level \in {"MEDIUM", "LOW"}
        THEN <<"unload_models_after_use", "sequential_processing", "reduce_batch_sizes">>
      ELSE <<"unload_models_after_use", "sequential_processing",
             "minimal_batch_sizes", "aggressive_garbage_collection">> ]

\* suggest_consolidation_strategy, for the statistics it has sampled
suggest_consolidation_strategy(s) ==
  [ threshold_level      |-> threshold_value_mb(s.threshold_level),
    recommended_action   |->
      IF s.threshold_level = "HIGH" THEN "spawn_specialized_agents"
      ELSE IF s.threshold_level = "MEDIUM" THEN "moderate_consolidation"
      ELSE IF s.threshold_level = "LOW" THEN "aggressive_consolidation"
      ELSE "minimal_mode",
    agent_consolidation  |->
      IF s.threshold_level = "HIGH"
        THEN [orchestrator |-> 1, pdf_intelligence |-> 1, excel_intelligence |-> 1,
              validation |-> 1, sub_agents |-> <<"ocr", "multimodal", "evaluation">>]
      ELSE IF s.threshold_level = "MEDIUM"
        THEN [orchestrator |-> 1, document_processing |-> 1, validation |-> 1]
      ELSE IF s.threshold_level = "LOW"
        THEN [orchestrator |-> 1, combined_processor |-> 1]
      ELSE [orchestrator_only |-> 1],
    memory_optimizations |->
      IF s.threshold_level = "HIGH" THEN <<>>
      ELSE IF s.threshold_level = "MEDIUM" THEN <<"unload_models_after_use">>
      ELSE IF s.threshold_level = "LOW"
        THEN <<"unload_models_after_use", "sequential_processing", "reduce_batch_sizes">>
      ELSE <<"unload_models_after_use", "sequential_processing",
             "minimal_batch_sizes", "aggressive_garbage_collection">> ]

\* list(self.active_tasks.values()), as the number of tracked ids per type
task_types == [c \in AgentClasses |-> Cardinality({u \in active_tasks : ClassOf(u) = c})]

\* a call of memory_manager.get_current_stats()
GetCurrentStats(t) ==
  /\ pc[t] = "idle"
  /\ ret' = [ret EXCEPT ![t] = get_current_stats(available_mb, psutil_raises)]
  /\ UNCHANGED <<os_vars, mm_vars, orch_vars, worker_vars, pc, nested, arg_type,
                 arg_override, stats, sample_raised, decision, outstanding>>

\* a call of memory_manager.suggest_consolidation_strategy()
SuggestStrategy(t) ==
  /\ pc[t] = "idle"
  /\ ret' = [ret EXCEPT ![t] =
               suggest_consolidation_strategy(get_current_stats(available_mb, psutil_raises))]
  /\ UNCHANGED <<os_vars, mm_vars, orch_vars, worker_vars, pc, nested, arg_type,
                 arg_override, stats, sample_raised, decision, outstanding>>

\* get_system_status: stats = self.memory_manager.get_current_stats()
GetSystemStatusSample(t) ==
  /\ pc[t] = "idle"
  /\ stats' = [stats EXCEPT ![t] = get_current_stats(available_mb, psutil_raises)]
  /\ pc' = [pc EXCEPT ![t] = "status_sampled"]
  /\ UNCHANGED <<os_vars, mm_vars, orch_vars, worker_vars, nested, arg_type,
                 arg_override, sample_raised, decision, ret, outstanding>>

\* mutant: get_system_status that also empties the task tracking
GetSystemStatusReturnClearing(t) ==
  /\ pc[t] = "status_sampled"
  /\ ret' = [ret EXCEPT ![t] =
               [ memory_stats           |-> stats[t],
                 consolidation_strategy |->
                   suggest_consolidation_strategy(
                     get_current_stats(available_mb, psutil_raises)),
                 active_tasks           |-> active_task_count,
                 task_types             |-> task_types,
                 consolidation_active   |-> consolidation_active ]]
  /\ active_tasks' = {}
  /\ stats' = [stats EXCEPT ![t] = NoStats]
  /\ pc' = [pc EXCEPT ![t] = "idle"]
  /\ UNCHANGED <<os_vars, mm_vars, worker_vars, nested, arg_type, arg_override,
                 sample_raised, decision, outstanding, req_pc, req_tier, req_result,
                 pdf_result, excel_result, consolidation_active, unit_state, unit_args>>

\* get_system_status: strategy = suggest_consolidation_strategy() (which
\* samples again), then the dict is built from stats, strategy and the
\* orchestrator's task tracking
GetSystemStatusReturn(t) ==
  /\ pc[t] = "status_sampled"
  /\ ret' = [ret EXCEPT ![t] =
               [ memory_stats           |-> stats[t],
                 consolidation_strategy |->
                   suggest_consolidation_strategy(
                     get_current_stats(available_mb, psutil_raises)),
                 active_tasks           |-> active_task_count,
                 task_types             |-> task_types,
                 consolidation_active   |-> consolidation_active ]]
  /\ stats' = [stats EXCEPT ![t] = NoStats]
  /\ pc' = [pc EXCEPT ![t] = "idle"]
  /\ UNCHANGED <<os_vars, mm_vars, orch_vars, worker_vars, nested, arg_type,
                 arg_override, sample_raised, decision, outstanding>>

\* ---- one caller using every operation of the orchestrator's MemoryManager
\* and get_system_status, while the orchestrator processes one request
StatusThreads == {CHOOSE t \in Threads : TRUE}
StatusRequests == {CHOOSE r \in Requests : TRUE}

\* 3 GB available: admission allowed, ceiling 3
InitStatus == Init /\ available_mb = 3072 /\ psutil_raises = FALSE

NextStatus ==
  \/ \E t \in StatusThreads :
       \/ TrySpawnSteps(t)
       \/ \E ty \in ClientTypes, ov \in Overrides : CanSpawnEnter(t, ty, ov)
       \/ \E ty \in ClientTypes : RegisterEnter(t, ty)
       \/ RegisterBody(t)
       \/ \E ty \in ClientTypes : UnregisterEnter(t, ty)
       \/ UnregisterBody(t)
       \/ GetCurrentStats(t)
       \/ SuggestStrategy(t)
       \/ GetSystemStatusSample(t)
       \/ GetSystemStatusReturn(t)
  \/ \E r \in StatusRequests :
       \/ Receive(r)
       \/ DistSubmitPdf(r)
       \/ DistSubmitExcel(r)
       \/ DistWaitPdf(r)
       \/ DistWaitExcel(r)
       \/ DistSubmitValidation(r)
       \/ DistWaitValidation(r)
       \/ ConsSubmit(r)
       \/ ConsWait(r)
  \/ \E u \in TaskIds : UnitSucceeds(u) \/ UnitFails(u)

SpecStatus == InitStatus /\ [][NextStatus]_vars

\* a step of get_current_stats, suggest_consolidation_strategy,
\* get_system_status or can_spawn_agent by thread t
ReadOnlyStep(t) ==
  \/ pc[t] = "idle" /\ pc'[t] = "idle" /\ ret'[t] # ret[t]
  \/ pc[t] = "idle" /\ pc'[t] = "status_sampled"
  \/ pc[t] = "status_sampled" /\ pc'[t] = "idle"
  \/ pc[t] \in {"idle", "try_spawn_locked"} /\ pc'[t] = "can_spawn_locked"
  \/ pc[t] = "can_spawn_locked" /\ pc'[t] # "can_spawn_locked"

\* a step of try_spawn_agent that admits, of register_agent or of
\* unregister_agent by thread t
LedgerWritingStep(t) ==
  /\ pc'[t] = "idle"
  /\ \/ pc[t] = "try_spawn_checked" /\ decision[t].can_spawn
     \/ pc[t] = "register_locked"
     \/ pc[t] = "unregister_locked"

\* C13: get_system_status, get_current_stats, suggest_consolidation_strategy
\* and can_spawn_agent change neither the ledger nor the task tracking; the
\* ledger changes only in an admitting try_spawn_agent, in register_agent and
\* in unregister_agent.
C13_ReadOnlyOperations ==
  [][/\ \A t \in Threads :
          ReadOnlyStep(t) =>
            /\ active_agents' = active_agents
            /\ active_tasks' = active_tasks
            /\ consolidation_active' = consolidation_active
     /\ active_agents' # active_agents => \E t \in Threads : LedgerWritingStep(t)]_vars

\* get_system_status is between its two samples while the ledger holds a slot
\* and a task is tracked
C13_Witness ==
  \E t \in Threads :
    /\ pc[t] = "status_sampled"
    /\ ClientLedger # EmptyLedger
    /\ active_tasks # {}

(***************************************************************************)
(* The statistics and the strategy as functions of the available memory    *)
(***************************************************************************)
\* available memory in MB, on both sides of every breakpoint:
\* 1 GB, 2 GB, 2.04 GB (2088.96 MB), 3 GB, 4 GB, 6 GB
StatsLevels == {0, 307, 1023, 1024, 1536, 2047, 2048, 2088, 2089,
                3071, 3072, 4095, 4096, 6143, 6144, 8192}

InitStats ==
  /\ available_mb \in StatsLevels
  /\ psutil_raises \in BOOLEAN
  /\ os_changed = FALSE
  /\ InitManagers
  /\ InitThreads
  /\ InitOrchestrator
  /\ InitWorkers

NextStats ==
  \E t \in Threads :
    \/ GetCurrentStats(t)
    \/ SuggestStrategy(t)
    \/ GetSystemStatusSample(t)
    \/ GetSystemStatusReturn(t)

SpecStats == InitStats /\ [][NextStats]_vars

\* what a thread got back from its last call
IsStats(x) == "recommended_agent_count" \in DOMAIN x
IsStrategy(x) == "recommended_action" \in DOMAIN x
\* the statistics a thread got back from get_current_stats
ReturnedStats == {ret[t] : t \in {th \in Threads : IsStats(ret[th])}}

TierRank(tier) ==
  IF tier = "CRITICAL" THEN 0 ELSE IF tier = "LOW" THEN 1
  ELSE IF tier = "MEDIUM" THEN 2 ELSE 3

\* C14: suggest_consolidation_strategy answers every tier, always with the
\* same strategy for the same tier: spawn_specialized_agents and no
\* optimization for HIGH, moderate_consolidation for MEDIUM,
\* aggressive_consolidation for LOW, minimal_mode for CRITICAL, each with its
\* list of optimizations.
C14_StrategyTable ==
  \A t \in Threads :
    IsStrategy(ret[t]) =>
      LET tier == IF psutil_raises THEN "LOW" ELSE determine_threshold(available_mb)
          g == ret[t]
      IN /\ tier = "HIGH" =>
              /\ g.recommended_action = "spawn_specialized_agents"
              /\ g.memory_optimizations = <<>>
         /\ tier = "MEDIUM" =>
              /\ g.recommended_action = "moderate_consolidation"
              /\ g.memory_optimizations = <<"unload_models_after_use">>
         /\ tier = "LOW" =>
              /\ g.recommended_action = "aggressive_consolidation"
              /\ g.memory_optimizations =
                   <<"unload_models_after_use", "sequential_processing",
                     "reduce_batch_sizes">>
         /\ tier = "CRITICAL" =>
              /\ g.recommended_action = "minimal_mode"
              /\ g.memory_optimizations =
                   <<"unload_models_after_use", "sequential_processing",
                     "minimal_batch_sizes", "aggressive_garbage_collection">>
         /\ g.recommended_action \in
              {"spawn_specialized_agents", "moderate_consolidation",
               "aggressive_consolidation", "minimal_mode"}
         /\ \A th \in Threads : IsStrategy(ret[th]) => ret[th] = g

\* two threads hold the strategy of the MEDIUM tier
C14_Witness ==
  /\ available_mb = 3072 /\ ~psutil_raises
  /\ \E t, th \in Threads :
       /\ t # th
       /\ IsStrategy(ret[t]) /\ IsStrategy(ret[th])
       /\ ret[t].recommended_action = "moderate_consolidation"

C16_CeilingMonotonicity ==
  ~psutil_raises =>
    \A s \in ReturnedStats :
      LET a == s.available_mb
          n == s.recommended_agent_count
      IN /\ a = available_mb
         /\ n = (IF a >= 6 * 1024 THEN 8 ELSE IF a >= 4 * 1024 THEN 5
                 ELSE IF a >= 2 * 1024 THEN 3 ELSE IF a >= 1 * 1024 THEN 2 ELSE 1)
         /\ \A a2 \in StatsLevels :
              /\ a <= a2 => n <= calculate_recommended_agent_count(a2)
              /\ a2 <= a => calculate_recommended_agent_count(a2) <= n

\* statistics sampled at exactly 4 GB came back with ceiling 5
C16_Witness ==
  /\ available_mb = 4096 /\ ~psutil_raises
  /\ \E s \in ReturnedStats : s.recommended_agent_count = 5

\* C17: can_spawn_agents of returned statistics is true iff available memory
\* is more than 0.3 x 8 GB x 0.85 = 2.04 GB (2088.96 MB); it is true at 8 GB
\* and false at 1.5 GB and 0.3 GB.
C17_AdmissionAllowedFlag ==
  /\ \A s \in ReturnedStats :
       /\ s.can_spawn_agents = (s.available_mb * 100 > 208896)
       /\ s.available_mb = 8192 => s.can_spawn_agents
       /\ s.available_mb \in {1536, 307} => ~s.can_spawn_agents
  /\ get_current_stats(8192, FALSE).can_spawn_agents
  /\ ~get_current_stats(1536, FALSE).can_spawn_agents
  /\ ~get_current_stats(307, FALSE).can_spawn_agents

\* statistics sampled just above 2.04 GB came back with the flag set
C17_Witness ==
  /\ available_mb = 2089 /\ ~psutil_raises
  /\ \E s \in ReturnedStats : s.can_spawn_agents

(***************************************************************************)
(* try_spawn_agent, call by call                                           *)
(***************************************************************************)
InitSpawn ==
  /\ available_mb \in SpawnLevels
  /\ psutil_raises \in BOOLEAN
  /\ os_changed = FALSE
  /\ InitManagers
  /\ InitThreads
  /\ InitOrchestrator
  /\ InitWorkers

\* try_spawn_agent with every kind of argument, register_agent and
\* unregister_agent, from concurrent threads, the memory state held fixed
NextSpawn ==
  \E t \in Threads :
    \/ \E ty \in SpawnTypes, ov \in SpawnOverrides : TrySpawnEnter(t, ty, ov)
    \/ TrySpawnCallCheck(t)
    \/ CanSpawnCheck(t)
    \/ TrySpawnReserve(t)
    \/ \E ty \in SpawnTypes : RegisterEnter(t, ty)
    \/ RegisterBody(t)
    \/ \E ty \in SpawnTypes : UnregisterEnter(t, ty)
    \/ UnregisterBody(t)

SpecSpawn == InitSpawn /\ [][NextSpawn]_vars

\* peak + model-load memory of the profile of a type, 256 MB without a profile
ProfileRequired(ty) ==
  IF ty \in DOMAIN AGENT_PROFILES
    THEN AGENT_PROFILES[ty].peak_memory_mb + AGENT_PROFILES[ty].model_memory_mb
    ELSE DefaultRequiredMb

\* the three conditions of admission, for the statistics thread t sampled in
\* its call and a required memory
AdmissionConditions(t, required) ==
  /\ stats[t].can_spawn_agents
  /\ stats[t].available_mb >= required
  /\ LedgerTotal(ClientLedger) < stats[t].recommended_agent_count

\* thread t returns from try_spawn_agent, called with a numeric or no override
ReturnsFromTrySpawn(t) ==
  /\ pc[t] = "try_spawn_checked"
  /\ pc'[t] = "idle"
  /\ arg_override[t] # MalformedOverride

\* C18: try_spawn_agent admits iff can_spawn_agents is true,
\* available >= required and total < ceiling for the statistics sampled in the
\* call, where required is the override whenever one is supplied and the
\* profile's peak + model-load memory otherwise.
C18_AdmissionDecision ==
  [][\A t \in Threads :
       ReturnsFromTrySpawn(t) =>
         (ret'[t].can_spawn =
            AdmissionConditions(t, IF arg_override[t] # NoOverride
                                     THEN arg_override[t]
                                     ELSE ProfileRequired(arg_type[t])))]_vars

\* What can_spawn_agent computes: the same three conditions, where required is the override
\* when a non-zero one is supplied; with no override or an override of 0 it is
\* the profile's peak + model-load memory, and 256 MB for a type without a
\* profile.
C18_AdmissionDecisionNonZeroOverride ==
  [][\A t \in Threads :
       ReturnsFromTrySpawn(t) =>
         (ret'[t].can_spawn =
            AdmissionConditions(t, IF arg_override[t] \notin {NoOverride, 0}
                                     THEN arg_override[t]
                                     ELSE ProfileRequired(arg_type[t])))]_vars

\* try_spawn_agent('multimodal_sub_agent', 0) is about to return a rejection
\* for lack of memory although admission is allowed and the limit not reached
C18_Witness ==
  \E t \in Threads :
    /\ pc[t] = "try_spawn_checked"
    /\ arg_override[t] = 0
    /\ stats[t].can_spawn_agents
    /\ LedgerTotal(ClientLedger) < stats[t].recommended_agent_count
    /\ decision[t] = [can_spawn |-> FALSE, reason |-> ReasonInsufficientRequired]

\* C19: the checks run in the order admission-allowed, required memory,
\* ceiling: when can_spawn_agents is false the reason is the "Insufficient
\* memory: ... available" one whatever the ledger holds, and the "Agent limit
\* reached" reason is given only when both memory checks passed.
C19_CheckedStep(t) ==
  (pc[t] = "can_spawn_locked" /\ pc'[t] = "try_spawn_checked") =>
    LET s == stats'[t]
        d == decision'[t]
    IN /\ ~s.can_spawn_agents => d.reason = ReasonInsufficientAvailable
       /\ d.reason = ReasonLimitReached =>
            /\ s.can_spawn_agents
            /\ s.available_mb >= required_mb(arg_type[t], arg_override[t])
            /\ LedgerTotal(ClientLedger) >= s.recommended_agent_count
       /\ d.reason = ReasonInsufficientRequired =>
            /\ s.can_spawn_agents
            /\ s.available_mb < required_mb(arg_type[t], arg_override[t])
       /\ d.can_spawn = (d.reason = ReasonOk)

C19_ReasonPrecedence == [][\A t \in Threads : C19_CheckedStep(t)]_vars

\* admission is not allowed and the ledger is at the ceiling: the reason is
\* the memory one
C19_Witness ==
  \E t \in Threads :
    /\ pc[t] = "try_spawn_checked"
    /\ ~stats[t].can_spawn_agents
    /\ LedgerTotal(ClientLedger) >= stats[t].recommended_agent_count
    /\ decision[t].reason = ReasonInsufficientAvailable

\* C20: an admitting try_spawn_agent raises the count of the requested type
\* by one and leaves every other entry as it was; a rejecting one, whatever
\* the reason (an error inside the check included), leaves the ledger
\* unchanged.
C20_ReturnStep(t) ==
  (pc[t] = "try_spawn_checked" /\ pc'[t] = "idle") =>
    LET before == active_agents[ClientManager]
        after == active_agents'[ClientManager]
        ty == arg_type[t]
    IN IF ret'[t].can_spawn
         THEN /\ LedgerGet(after, ty) = LedgerGet(before, ty) + 1
              /\ DOMAIN after = DOMAIN before \cup {ty}
              /\ \A other \in DOMAIN before \ {ty} : after[other] = before[other]
         ELSE /\ after = before
              /\ ret'[t].reason \in {ReasonInsufficientAvailable,
                                     ReasonInsufficientRequired,
                                     ReasonLimitReached, ReasonError}

C20_TrySpawnEffect ==
  [][/\ \A t \in Threads : C20_ReturnStep(t)
     /\ \A m \in Managers \ {ClientManager} : active_agents'[m] = active_agents[m]]_vars

\* the check of a try_spawn_agent call ended in an error while the ledger
\* holds slots of another type
C20_Witness ==
  \E t \in Threads :
    /\ pc[t] = "try_spawn_checked"
    /\ decision[t].reason = ReasonError
    /\ DOMAIN ClientLedger \ {arg_type[t]} # {}

(***************************************************************************)
(* One request and the worker pool together.  A unit the orchestrator has  *)
(* dispatched is picked up by an idle pool thread, which runs its hooks    *)
(* and its body; the state the orchestrator sees becomes SUCCESS or        *)
(* FAILURE once that thread has finished the task.                         *)
(***************************************************************************)
\* the unit of the request that pool thread w executes or has executed
UnitOf(w) == <<CHOOSE r \in StatusRequests : TRUE, worker_class[w]>>

\* the unit of class c waits in the queue: dispatched, taken by no pool thread
Queued(c) ==
  /\ \E r \in StatusRequests : unit_state[<<r, c>>] = "PENDING"
  /\ \A w \in Workers : worker_class[w] # c

\* pool thread w has nothing left to report about its last task
Reported(w) ==
  IF worker_outcome[w] = "none" THEN TRUE ELSE unit_state[UnitOf(w)] # "PENDING"

\* the pool thread w takes the queued unit of class c: before_start begins
UnitPickedUp(w, c) == Queued(c) /\ Reported(w) /\ BeforeStartCheck(w, c)

\* the state of the task pool thread w has finished reaches the orchestrator
ResultStored(w) ==
  /\ worker_pc[w] = "idle"
  /\ \/ worker_outcome[w] = "SUCCESS" /\ UnitSucceeds(UnitOf(w))
     \/ worker_outcome[w] = "FAILURE" /\ UnitFails(UnitOf(w))

NextDispatch ==
  \/ \E r \in StatusRequests :
       \/ Receive(r)
       \/ DistSubmitPdf(r)
       \/ DistSubmitExcel(r)
       \/ DistWaitPdf(r)
       \/ DistWaitExcel(r)
       \/ DistSubmitValidation(r)
       \/ DistWaitValidation(r)
       \/ ConsSubmit(r)
       \/ ConsWait(r)
  \/ \E w \in Workers :
       \/ \E c \in AgentClasses : UnitPickedUp(w, c)
       \/ BeforeStartRegister(w)
       \/ RunSucceeds(w)
       \/ RunFails(w)
       \/ OnFailure(w)
       \/ AfterReturn(w)
       \/ ResultStored(w)

SpecDispatch == InitService /\ [][NextDispatch]_vars

\* the slots registered for units of class c, in the ledger of that class
SlotsOf(c) == LedgerGet(active_agents[c], c)

\* request r raises the timeout of its unit of class c in this step
TimesOut(r, c) ==
  /\ req_pc[r] # "raised"
  /\ req_pc'[r] = "raised"
  /\ req_result'[r] = timeout_of(<<r, c>>)

\* C21: when the wait on a dispatched unit expires, handling the timeout
\* removes the unit's tracking entry and unregisters the slot reserved for
\* the unit, as for a unit that failed: once the request has raised the
\* timeout, no slot of the timed-out unit is left in the ledger.
C21_TimeoutCleanup ==
  [][\A r \in Requests, c \in AgentClasses :
       TimesOut(r, c) =>
         /\ <<r, c>> \notin active_tasks'
         /\ SlotsOf(c)' = 0]_vars

(***************************************************************************)
(* Claims about the course of a request                                    *)
(***************************************************************************)
\* the units request r has dispatched all belong to one path
C22_OnePath(r) ==
  \/ Dispatched(r) \subseteq DistributedClasses
  \/ Dispatched(r) \subseteq ConsolidatedClasses

\* a unit is dispatched at most once, and a finished request dispatches nothing
C22_DispatchStep(r) ==
  /\ \A c \in AgentClasses :
       LET u == <<r, c>> IN
         unit_state[u] # "none" =>
           /\ unit_state'[u] = "PENDING" => unit_state[u] = "PENDING"
           /\ unit_args'[u] = unit_args[u]
  /\ req_pc[r] \in FinishedPcs =>
       /\ req_pc'[r] = req_pc[r]
       /\ \A c \in AgentClasses : unit_state'[<<r, c>>] = "none" <=> unit_state[<<r, c>>] = "none"
  /\ (req_pc[r] \in DistributedPcs /\ req_pc'[r] # req_pc[r]) =>
       req_pc'[r] \in DistributedPcs \cup FinishedPcs

\* C22: a request that chose the distributed path never dispatches the
\* consolidated unit and never dispatches a unit again after a failure or a
\* timeout; every request dispatches units of one path only, each at most
\* once, and then returns or raises.
C22_NoSilentDowngrade ==
  /\ [](\A r \in Requests : C22_OnePath(r))
  /\ [][\A r \in Requests : C22_DispatchStep(r)]_vars

\* a distributed request has raised the timeout of an extraction unit: only
\* the two extraction units were ever dispatched
C22_Witness ==
  \E r \in Requests :
    /\ req_pc[r] = "raised"
    /\ req_result[r].kind = "timeout"
    /\ Dispatched(r) = {"pdf_intelligence", "excel_intelligence"}

(***************************************************************************)
(* Check, then register: callers of the two public methods can_spawn_agent *)
(* and register_agent next to callers of try_spawn_agent, on one           *)
(* MemoryManager, with the memory held fixed                               *)
(***************************************************************************)
RaceType == "custom_agent"
\* the callers that check with can_spawn_agent and register when it said yes
PatternCallers == Threads
\* the callers that use try_spawn_agent
AtomicCallers == Contenders \ Threads

\* register_agent called by a caller whose can_spawn_agent call has just
\* returned True
RegisterAfterCheck(t) ==
  /\ pc[t] = "idle"
  /\ ret[t].can_spawn
  /\ Acquire(ClientManager, t)
  /\ pc' = [pc EXCEPT ![t] = "register_locked"]
  /\ arg_type' = [arg_type EXCEPT ![t] = RaceType]
  /\ UNCHANGED <<orch_vars, worker_vars, os_vars, active_agents, nested, arg_override,
                 stats, sample_raised, decision, ret, outstanding>>

\* 3 GB available: admission allowed, ceiling 3, enough for the type
InitRace == Init /\ available_mb = 3072 /\ psutil_raises = FALSE

NextRace ==
  \/ \E t \in PatternCallers :
       \/ CanSpawnEnter(t, RaceType, NoOverride)
       \/ CanSpawnCheck(t)
       \/ RegisterAfterCheck(t)
       \/ RegisterBody(t)
  \/ \E t \in AtomicCallers :
       \/ TrySpawnEnter(t, RaceType, NoOverride)
       \/ TrySpawnCallCheck(t)
       \/ CanSpawnCheck(t)
       \/ TrySpawnReserve(t)
  \/ \E t \in PatternCallers \cup AtomicCallers :
       \/ outstanding[RaceType] > 0 /\ UnregisterEnter(t, RaceType)
       \/ UnregisterBody(t)

SpecRace == InitRace /\ [][NextRace]_vars

\* C23: an admission by try_spawn_agent never leaves the ledger total above
\* the ceiling, whatever other callers do; a step that takes the total from
\* at most the ceiling to above it is the register_agent of a caller whose
\* separate can_spawn_agent check passed against an earlier ledger state.
C23_RaceStep ==
  /\ \A t \in AllThreads :
       (pc[t] = "try_spawn_checked" /\ pc'[t] = "idle" /\ ret'[t].can_spawn) =>
         LedgerTotal(ClientLedger') <= CurrentCeiling
  /\ (LedgerTotal(ClientLedger) <= CurrentCeiling
        /\ LedgerTotal(ClientLedger') > CurrentCeiling) =>
       \E t \in PatternCallers :
         pc[t] = "register_locked" /\ pc'[t] = "idle" /\ ret[t].can_spawn

C23_CheckThenRegisterRace == [][C23_RaceStep]_vars

\* only callers of the pattern have been at work: two of them passed their
\* checks against the same ledger, both registered, and the total is above
\* the ceiling
C23_Witness ==
  /\ LedgerTotal(ClientLedger) = CurrentCeiling + 1
  /\ \A t \in PatternCallers : pc[t] = "idle"
  /\ \A t \in AtomicCallers : pc[t] = "idle" /\ ret[t] = NoReturn

(***************************************************************************)
(* The critical sections of one MemoryManager under a scheduler that lets  *)
(* every thread that is inside a call run again                            *)
(***************************************************************************)
NextLock ==
  \E t \in Threads :
    \/ TrySpawnSteps(t)
    \/ \E ty \in ClientTypes, ov \in Overrides : CanSpawnEnter(t, ty, ov)
    \/ \E ty \in ClientTypes : RegisterEnter(t, ty)
    \/ RegisterBody(t)
    \/ \E ty \in ClientTypes : UnregisterEnter(t, ty)
    \/ UnregisterBody(t)

\* the next step of thread t inside the call it has entered
InCallStep(t) ==
  \/ TrySpawnCallCheck(t)
  \/ CanSpawnCheck(t)
  \/ TrySpawnReserve(t)
  \/ RegisterBody(t)
  \/ UnregisterBody(t)

SpecLock ==
  /\ Init
  /\ [][NextLock]_vars
  /\ \A t \in Threads : WF_vars(InCallStep(t))

\* thread t is inside a "with self.agent_lock:" block
InCritical(t) ==
  pc[t] \in {"try_spawn_locked", "can_spawn_locked", "try_spawn_checked",
             "register_locked", "unregister_locked"}

\* at most one thread is inside, it owns the lock, and the recursion level
\* is 2 exactly inside the nested can_spawn_agent
C24_MutualExclusion ==
  /\ Cardinality({t \in Threads : InCritical(t)}) <= 1
  /\ \A t \in Threads :
       InCritical(t) =>
         /\ lock_owner[ClientManager] = t
         /\ lock_depth[ClientManager] =
              (IF pc[t] = "can_spawn_locked" /\ nested[t] THEN 2 ELSE 1)
  /\ (\A t \in Threads : ~InCritical(t)) =>
       /\ lock_owner[ClientManager] = NoThread
       /\ lock_depth[ClientManager] = 0

\* C24: try_spawn_agent calls can_spawn_agent while it holds agent_lock and
\* the nested acquisition succeeds; with threads calling try_spawn_agent,
\* can_spawn_agent, register_agent and unregister_agent at most one thread is
\* inside the critical section at a time, no thread is stuck inside it, and
\* every call that has entered returns.
C24_ReentrantCriticalSection ==
  /\ []C24_MutualExclusion
  /\ \A t \in Threads : InCritical(t) ~> pc[t] = "idle"

\* a thread is inside can_spawn_agent called by its own try_spawn_agent,
\* holding the lock twice, while another thread has a call to make
C24_Witness ==
  \E t \in Threads :
    /\ pc[t] = "can_spawn_locked"
    /\ nested[t]
    /\ lock_depth[ClientManager] = 2
    /\ \E o \in Threads \ {t} : pc[o] = "idle"

(***************************************************************************)
(* Claims about the ceiling when the available memory moves                *)
(***************************************************************************)
\* the OS memory state changes in this step
MemoryMoves == <<available_mb, psutil_raises>>' # <<available_mb, psutil_raises>>

\* C25: a change of the available memory never changes the ledger, so the
\* total may be above the ceiling that is current after a drop; a
\* try_spawn_agent whose check finds the total at or above the current
\* ceiling is rejected, and an admission is made only with the total below
\* the ceiling sampled in the call.
C25_SoftCeilingStep ==
  /\ MemoryMoves => active_agents' = active_agents
  /\ \A t \in Threads :
       /\ (pc[t] = "can_spawn_locked" /\ pc'[t] = "try_spawn_checked"
             /\ LedgerTotal(ClientLedger) >= CurrentCeiling)
            => ~decision'[t].can_spawn
       /\ (pc[t] = "try_spawn_checked" /\ pc'[t] = "idle")
            => /\ ret'[t].can_spawn =>
                    LedgerTotal(ClientLedger) < stats[t].recommended_agent_count
               /\ LedgerTotal(ClientLedger) >= stats[t].recommended_agent_count =>
                    ClientLedger' = ClientLedger

C25_SoftCeiling == [][C25_SoftCeilingStep]_vars

\* the memory has dropped, the total is above the ceiling of the moment, and
\* a try_spawn_agent call has been rejected for the limit
C25_Witness ==
  /\ os_changed
  /\ LedgerTotal(ClientLedger) > CurrentCeiling
  /\ \E t \in Threads : pc[t] = "idle" /\ ret[t].reason = ReasonLimitReached

(***************************************************************************)
(* One request and the worker pool, under a scheduler that lets the thread *)
(* of a request that is being processed run again.  Nothing is assumed     *)
(* about the workers: a unit may never be picked up or never finish.       *)
(***************************************************************************)
\* a step of process_validation_request for request r after it was received
RequestStep(r) ==
  \/ DistSubmitPdf(r)
  \/ DistSubmitExcel(r)
  \/ DistWaitPdf(r)
  \/ DistWaitExcel(r)
  \/ DistSubmitValidation(r)
  \/ DistWaitValidation(r)
  \/ ConsSubmit(r)
  \/ ConsWait(r)

SpecDispatchLive ==
  /\ InitService
  /\ [][NextDispatch]_vars
  /\ \A r \in StatusRequests : WF_vars(RequestStep(r))

\* the states of a request: not yet called; received with the strategy
\* selected and the units of one path being dispatched and awaited; completed
\* (returned) or failed (raised)
C26_LifecycleStep(r) ==
  /\ (req_pc[r] = "idle" /\ req_pc'[r] # "idle") =>
       req_pc'[r] \in {"dist_submit_pdf", "cons_submit"}
  /\ (req_pc[r] \in DistributedPcs /\ req_pc'[r] # req_pc[r]) =>
       req_pc'[r] \in DistributedPcs \cup FinishedPcs
  /\ (req_pc[r] \in ConsolidatedPcs /\ req_pc'[r] # req_pc[r]) =>
       req_pc'[r] \in ConsolidatedPcs \cup FinishedPcs
  /\ req_pc[r] \in FinishedPcs => req_pc'[r] = req_pc[r]
  /\ req_pc'[r] = "returned" <=> req_result'[r].status = "success"
  /\ req_pc'[r] = "raised" <=> req_result'[r].status = "error"

\* C26: every call of process_validation_request terminates, returning a
\* result or raising: a request that was received and is dispatching or
\* awaiting the units of its path ends in returned or raised, whatever the
\* workers do, because every wait gives up when its timeout expires.
C26_RequestTermination ==
  /\ [][\A r \in Requests : C26_LifecycleStep(r)]_vars
  /\ \A r \in Requests :
       req_pc[r] \in DistributedPcs \cup ConsolidatedPcs ~> req_pc[r] \in FinishedPcs

\* a request has ended with the timeout of a unit that no worker had even
\* picked up
C26_Witness ==
  \E r \in Requests, c \in AgentClasses :
    /\ req_pc[r] = "raised"
    /\ req_result[r] = timeout_of(<<r, c>>)
    /\ unit_state[<<r, c>>] = "PENDING"
    /\ \A w \in Workers : worker_class[w] # c

\* the tracking entries of request q whose units are still running
RunningEntries(q) ==
  {u \in active_tasks : u[1] = q /\ unit_state[u] = "PENDING"}

\* C27: with several requests in flight on the orchestrator, the failure of
\* one request removes only the tracking entries of that request: the entries
\* of the other requests whose units are still running stay in active_tasks.
C27_RequestScopedCleanup ==
  [][\A r \in Requests :
       (req_pc[r] \notin FinishedPcs /\ req_pc'[r] = "raised") =>
         \A q \in Requests \ {r} : RunningEntries(q) \subseteq active_tasks']_vars

\* a consolidated unit has been dispatched and the request that dispatched it
\* has seen neither its completion, nor its failure, nor the timeout
ConsolidatedInFlight == \E r \in Requests : req_pc[r] = "cons_wait"

\* C28: in every reachable state, also with several requests processed
\* concurrently, consolidation_active is true exactly when a consolidated unit
\* has been dispatched and has not yet completed, failed or timed out; it is
\* false once every request has finished.
C28_ConsolidationActiveAccuracy ==
  consolidation_active = ConsolidatedInFlight

\* C29: after any sequence of try_spawn_agent, register_agent and
\* unregister_agent calls every type that is a key of the ledger has a count
\* of at least 1: a type is a key exactly when it has a registered worker, and
\* the number of keys never exceeds the total.
C29_NoZeroEntries ==
  /\ \A ty \in DOMAIN ClientLedger : ClientLedger[ty] >= 1
  /\ \A ty \in ClientTypes : ty \in DOMAIN ClientLedger <=> LedgerGet(ClientLedger, ty) >= 1
  /\ Cardinality(DOMAIN ClientLedger) <= LedgerTotal(ClientLedger)

\* unregister_agent is about to release the last slot of a type while the
\* other type keeps its entry
C29_Witness ==
  \E t \in Threads :
    /\ pc[t] = "unregister_locked"
    /\ LedgerGet(ClientLedger, arg_type[t]) = 1
    /\ Cardinality(DOMAIN ClientLedger) = 2

(***************************************************************************)
(* get_system_status while the available memory moves                      *)
(***************************************************************************)
NextSnapshot ==
  \/ OsChange
  \/ \E t \in Threads :
       \/ GetSystemStatusSample(t)
       \/ GetSystemStatusReturn(t)

SpecSnapshot == Init /\ [][NextSnapshot]_vars

\* what thread t got from its last call is a status report
IsStatus(x) == "memory_stats" \in DOMAIN x

\* C30: the statistics and the strategy that one call of get_system_status
\* returns describe the same memory state, also when the available memory
\* changes while the call is running: the strategy's threshold level is the
\* tier of the reported statistics.
C30_SnapshotConsistency ==
  \A t \in Threads :
    IsStatus(ret[t]) =>
      ret[t].consolidation_strategy.threshold_level
        = threshold_value_mb(ret[t].memory_stats.threshold_level)

=============================================================================
